---- MODULE Spec2Model ----
(***************************************************************************)
(* Model of the SingStar XML converter (src/xml_converter/__init__.py).    *)
(*                                                                         *)
(* A text is a sequence of one-character strings; an optional integer is   *)
(* a sequence of length 0 (None) or 1; an integer-valued XML attribute is  *)
(* a record [int, v]: int is FALSE when int(...) raises ValueError.        *)
(* Lines live in a heap (lines) and the tracks hold references to them,    *)
(* because the code appends one Line object to both tracks for "Group".    *)
(***************************************************************************)
EXTENDS Integers, Sequences, FiniteSets, TLC

VARIABLES
    pc,             \* position of the conversion
    raw_bytes,      \* self.raw_bytes: None, or whether there are bytes
    parse_log,      \* the calls of _parse_xml, in order: encoding and result
    root,           \* self.root: None, or the attributes of the parsed document
    version,        \* self.version (1, 2 or 4)
    is_duet,        \* self.is_duet
    bpm,            \* self.bpm: None while the attribute is unset
    p1_name,        \* self.p1_name (optional)
    p2_name,        \* self.p2_name (optional)
    n_tracks,       \* number of TRACK elements of the document
    idx,            \* V2/V4: index of the TRACK element being parsed
    current_singer, \* carried-forward Singer attribute
    singer,         \* effective singer of the sentence being parsed
    singer_attr,    \* Singer attribute of the sentence being parsed (optional)
    current_beat,   \* the beat cursor
    line,           \* notes of the Line being built by _parse_sentence_to_line
    lines,          \* heap of finished Line objects
    track_1,        \* references (indices into lines)
    track_2,
    medley_start,   \* self.medley_start (optional)
    medley_end,     \* self.medley_end (optional)
    note_elem,      \* what the last iteration of the NOTE loop read and did
    n_notes,        \* NOTE elements consumed so far
    line_lyrics,    \* history: Lyric attributes of the retained notes of line
    lyrics,         \* history: the same for every Line of the heap
    ends,           \* history: the beat cursor when each Line of the heap was closed
    result,         \* outcome of convert_to_songtxt
    headers,        \* the Headers of the returned document (optional)
    texts,          \* heuristics alone: the note texts they are applied to
    before,         \* heuristics alone: the texts before each pass, in order
    passes          \* heuristics alone: the passes applied so far

\* Read, parse and metadata state.
metaVars == <<raw_bytes, parse_log, root, version, is_duet, bpm, p1_name,
              p2_name, n_tracks>>

\* State of the sentence loops.
loopVars == <<idx, current_singer, singer, current_beat, n_notes>>

\* State of the Line being built.
lineVars == <<line, line_lyrics, note_elem, singer_attr>>

\* The finished Lines and the two tracks.
trackVars == <<lines, lyrics, ends, track_1, track_2>>

medleyVars == <<medley_start, medley_end>>

outVars == <<result, headers>>

harnessVars == <<texts, before, passes>>

vars == <<pc, metaVars, loopVars, lineVars, trackVars, medleyVars, outVars,
          harnessVars>>

----------------------------------------------------------------------------
(* Bounds of the model *)

MaxNotes == 2
MaxTracks == 2
MaxTexts == 4
MaxLyricNotes == 3
MaxConvertNotes == 5

----------------------------------------------------------------------------
(* Optional values and texts *)

None == <<>>
Some(x) == <<x>>

SPACE == " "
TILDE == <<"~">>
TILDE_SPACE == <<"~", " ">>

\* The letters of the modelled alphabet (str.isalpha).
Letters == {"l", "o", "v", "e", "a", "h", "O"}

\* VOWELS (ASCII part; the umlauts are outside the modelled alphabet).
VOWELS == {"a", "e", "i", "o", "u", "A", "E", "I", "O", "U"}

\* DIPHTHONGS, each entry as a text.
DIPHTHONGS ==
    { <<"a","a">>, <<"a","e">>, <<"a","h">>, <<"a","i">>, <<"a","u">>,
      <<"a","y">>, <<"A","h">>, <<"e","a">>, <<"e","a","h">>, <<"e","e">>,
      <<"e","i">>, <<"e","u">>, <<"e","y">>, <<"e","y","e">>, <<"i","e">>,
      <<"i","o">>, <<"o","a">>, <<"o","e">>, <<"o","h">>, <<"o","o","h">>,
      <<"o","i">>, <<"o","o">>, <<"o","u">>, <<"o","y">>, <<"O","h">>,
      <<"O","o","h">>, <<"u","e">>, <<"u","i">> }

IsAlpha(c) == c \in Letters

\* str.lower on one character of the modelled alphabet.
Lower(c) == IF c = "O" THEN "o" ELSE c

IsSpace(c) == c = SPACE

RECURSIVE LStrip(_)
LStrip(t) ==
    IF t # <<>> /\ IsSpace(Head(t)) THEN LStrip(Tail(t)) ELSE t

RECURSIVE RStrip(_)
RStrip(t) ==
    IF t # <<>> /\ IsSpace(t[Len(t)]) THEN RStrip(SubSeq(t, 1, Len(t) - 1)) ELSE t

\* str.strip()
Strip(t) == LStrip(RStrip(t))

\* str.endswith
EndsWith(t, suffix) ==
    /\ Len(t) >= Len(suffix)
    /\ SubSeq(t, Len(t) - Len(suffix) + 1, Len(t)) = suffix

----------------------------------------------------------------------------
(* Lyric heuristics, each on the sequence of the notes' texts *)

\* _fix_lyric_string
FixLyricString(lyric) ==
    IF lyric = <<>> THEN <<>>
    ELSE IF lyric = <<"-">> THEN TILDE
    ELSE IF EndsWith(lyric, <<" ", "-">>) THEN SubSeq(lyric, 1, Len(lyric) - 2)
    ELSE IF /\ EndsWith(lyric, <<"-">>)
            /\ Len(lyric) > 1
            /\ IsAlpha(lyric[Len(lyric) - 1])
         THEN lyric
    ELSE lyric \o <<SPACE>>

\* The two assignments that close a run of tildes in fix_tilde_spacing:
\* every index but the last gets "~", the last gets "~ ".
CloseRun(notes, tilde_indices) ==
    [k \in 1..Len(notes) |->
        IF k \in tilde_indices
        THEN (IF \E m \in tilde_indices : m > k THEN TILDE ELSE TILDE_SPACE)
        ELSE notes[k]]

RECURSIVE FixTildeLoop(_, _, _)
FixTildeLoop(notes, i, tilde_indices) ==
    IF i > Len(notes)
    THEN (IF tilde_indices # {} THEN CloseRun(notes, tilde_indices) ELSE notes)
    ELSE IF Strip(notes[i]) = TILDE
         THEN FixTildeLoop(notes, i + 1, tilde_indices \cup {i})
         ELSE IF tilde_indices # {}
              THEN FixTildeLoop(CloseRun(notes, tilde_indices), i + 1, {})
              ELSE FixTildeLoop(notes, i + 1, {})

FixTildeSpacing_Append(notes) ==
    [k \in 1..Len(notes) |->
        IF Strip(notes[k]) = TILDE /\ (k = Len(notes) \/ Strip(notes[k + 1]) # TILDE)
        THEN notes[k] \o <<SPACE>>
        ELSE IF Strip(notes[k]) = TILDE THEN TILDE ELSE notes[k]]

\* fix_tilde_spacing
FixTildeSpacing(notes) == FixTildeLoop(notes, 1, {})

\* The inner look-ahead of _add_space_to_last_tilde: last index of the run
\* of exact "~" texts that starts at i.
RECURSIVE LastExactTilde(_, _)
LastExactTilde(notes, i) ==
    IF i + 1 <= Len(notes) /\ notes[i + 1] = TILDE
    THEN LastExactTilde(notes, i + 1)
    ELSE i

RECURSIVE AddSpaceLoop(_, _)
AddSpaceLoop(notes, i) ==
    IF i > Len(notes) THEN notes
    ELSE IF notes[i] = TILDE
         THEN LET j == LastExactTilde(notes, i)
              IN  AddSpaceLoop([notes EXCEPT ![j] = TILDE_SPACE], j + 1)
         ELSE AddSpaceLoop(notes, i + 1)

\* _add_space_to_last_tilde
AddSpaceToLastTilde(notes) == AddSpaceLoop(notes, 1)

\* Start positions of the two-character slices found in DIPHTHONGS.
DiphthongStarts(text) ==
    { i \in 1..(Len(text) - 1) : <<Lower(text[i]), Lower(text[i + 1])>> \in DIPHTHONGS }

\* Positions of the single vowels no matched diphthong covers.
VowelStarts(text) ==
    { i \in 1..Len(text) :
        /\ text[i] \in VOWELS
        /\ \A s \in DiphthongStarts(text) : ~(s <= i /\ i < s + 2) }

Min(S) == CHOOSE x \in S : \A y \in S : x <= y

SplitIdx_OffByOne(text) ==
    LET matches == DiphthongStarts(text) \cup VowelStarts(text)
    IN  IF matches = {} THEN 0 ELSE Min(matches) - 1

\* Number of characters of the left part (split_idx); 0 when there is no match.
SplitIdx(text) ==
    LET matches == DiphthongStarts(text) \cup VowelStarts(text)
    IN  IF matches = {} THEN 0
        ELSE LET first == Min(matches)
             IN  IF first \in DiphthongStarts(text) THEN first + 1 ELSE first

\* _split_on_first_vowel_or_diphthong: <<left, right>>, or None.
SplitOnFirstVowelOrDiphthong(text) ==
    IF SplitIdx(text) = 0 THEN None
    ELSE <<SubSeq(text, 1, SplitIdx(text)),
           SubSeq(text, SplitIdx(text) + 1, Len(text))>>

\* End of the cluster of tilde notes that starts at j.
RECURSIVE ClusterEnd(_, _)
ClusterEnd(notes, j) ==
    IF j + 1 <= Len(notes) /\ Strip(notes[j + 1]) = TILDE
    THEN ClusterEnd(notes, j + 1)
    ELSE j

\* A split that writes the right part on every note of the run.
AssignSplit_EveryTilde(notes, i, j, parts) ==
    [k \in 1..Len(notes) |->
        IF k = i THEN parts[1]
        ELSE IF k > i /\ k <= j THEN TILDE \o RStrip(parts[2]) \o <<SPACE>>
        ELSE notes[k]]

\* The assignments of one split: left stays on note i, the notes between
\* i and j become "~", note j becomes "~" + right.rstrip() + " ".
AssignSplit(notes, i, j, parts) ==
    [k \in 1..Len(notes) |->
        IF k = i THEN parts[1]
        ELSE IF k > i /\ k < j THEN TILDE
        ELSE IF k = j THEN TILDE \o RStrip(parts[2]) \o <<SPACE>>
        ELSE notes[k]]

RECURSIVE SplitLoop(_, _)
SplitLoop(notes, i) ==
    IF ~(i < Len(notes)) THEN notes
    ELSE IF /\ Strip(notes[i]) # <<>>
            /\ Strip(notes[i]) # TILDE
            /\ Strip(notes[i + 1]) = TILDE
         THEN LET j == ClusterEnd(notes, i + 1)
                  split_result == SplitOnFirstVowelOrDiphthong(Strip(notes[i]))
              IN  IF split_result # None
                  THEN SplitLoop(AssignSplit(notes, i, j, split_result), j + 1)
                  ELSE SplitLoop(notes, i + 1)
         ELSE SplitLoop(notes, i + 1)

\* _split_lyrics_to_tildes
SplitLyricsToTildes(notes) == SplitLoop(notes, 1)

----------------------------------------------------------------------------
(* The input: NOTE elements, SENTENCE Singer attributes *)

IntAttr(n) == [int |-> TRUE, v |-> n]
BadAttr == [int |-> FALSE, v |-> 0]

\* MidiNote attribute values: unparsable, a rest, a pitch.
MidiNotes == {BadAttr, IntAttr(0), IntAttr(60)}

\* Duration attribute values: unparsable, negative, zero, positive.
Durations == {BadAttr, IntAttr(-1), IntAttr(0), IntAttr(1), IntAttr(2)}

\* Lyric attribute values of the track-building specification.
Lyrics == {<<>>, <<"-">>, <<"l", "a">>}

\* FreeStyle, Rap, Bonus: whether the attribute equals "Yes".
Flags ==
    { [FreeStyle |-> FALSE, Rap |-> FALSE, Bonus |-> FALSE],
      [FreeStyle |-> TRUE,  Rap |-> FALSE, Bonus |-> FALSE],
      [FreeStyle |-> FALSE, Rap |-> TRUE,  Bonus |-> TRUE] }

\* Type attributes of the MARKER_N children of a NOTE, in document order.
MarkerLists == {<<>>, <<"MedleyNormalBegin">>, <<"MedleyNormalEnd">>}

Elems(ms, ds, ls, fs, ks) ==
    { [MidiNote |-> m, Duration |-> d, Lyric |-> l, FreeStyle |-> f.FreeStyle,
       Rap |-> f.Rap, Bonus |-> f.Bonus, markers |-> k] :
        m \in ms, d \in ds, l \in ls, f \in fs, k \in ks }

NoFlags == [FreeStyle |-> FALSE, Rap |-> FALSE, Bonus |-> FALSE]

\* NOTE elements of the NOTE-loop specification: every combination of
\* pitch, duration, lyric and flags, and medley markers on some of them.
NoteElems ==
    Elems(MidiNotes, Durations, Lyrics, Flags, {<<>>})
    \cup Elems({BadAttr, IntAttr(60)}, {IntAttr(0), IntAttr(2)}, {<<"l", "a">>},
               {NoFlags}, MarkerLists)

\* Singer attribute of a SENTENCE: absent (None) or a value.
SingerAttrs == {None, Some("Solo 1"), Some("Solo 2"), Some("Group")}

NoElem == [Duration |-> IntAttr(0), MidiNote |-> IntAttr(0), start |-> 0,
           retained |-> FALSE, seen |-> FALSE]

----------------------------------------------------------------------------
(* _parse_sentence_to_line, one NOTE element *)

\* get_note_kind
GetNoteKind(e) ==
    IF e.FreeStyle /\ ~e.Rap THEN "FREESTYLE"
    ELSE IF e.Rap THEN (IF e.Bonus THEN "GOLDEN_RAP" ELSE "RAP")
    ELSE IF e.Bonus THEN "GOLDEN"
    ELSE "REGULAR"

\* extract_medley_markers: the value of a marker attribute after the
\* markers of one NOTE, the last marker of the type winning.
RECURSIVE ExtractMedleyMarkers(_, _, _, _)
ExtractMedleyMarkers(markers, type, beat, old) ==
    IF markers = <<>> THEN old
    ELSE ExtractMedleyMarkers(Tail(markers), type, beat,
                              IF Head(markers) = type THEN Some(beat) ELSE old)

\* The except branch: current_beat += int(Duration), or nothing when that
\* raises too.
SkipInvalid(e, beat) ==
    IF e.Duration.int THEN beat + e.Duration.v ELSE beat

RetainsNote_AnyPitch(e) ==
    /\ e.MidiNote.int /\ e.Duration.int
    /\ e.Duration.v > 0
    /\ (Strip(FixLyricString(e.Lyric)) # <<>> \/ e.FreeStyle)

\* Whether the loop body reaches line.notes.append(note).
RetainsNote(e) ==
    /\ e.MidiNote.int /\ e.Duration.int
    /\ e.Duration.v > 0
    /\ e.MidiNote.v > 0
    /\ (Strip(FixLyricString(e.Lyric)) # <<>> \/ e.FreeStyle)

BeatAfter_DropNoAdvance(e, beat) ==
    IF RetainsNote(e) THEN beat + e.Duration.v ELSE beat

\* current_beat after the loop body.
BeatAfter(e, beat) ==
    IF ~e.MidiNote.int \/ ~e.Duration.int THEN SkipInvalid(e, beat)
    ELSE IF e.Duration.v <= 0 THEN beat
    ELSE beat + e.Duration.v

\* The Note the loop body builds.
MakeNote(e, beat) ==
    [kind |-> GetNoteKind(e), start |-> beat, duration |-> e.Duration.v,
     pitch |-> e.MidiNote.v, text |-> FixLyricString(e.Lyric)]

Texts(notes) == [k \in 1..Len(notes) |-> notes[k].text]

SetTexts(notes, ts) == [k \in 1..Len(notes) |-> [notes[k] EXCEPT !.text = ts[k]]]

\* Lines 776-778: the last note's text gets a space unless it ends in one.
CloseLine(notes) ==
    IF notes = <<>> THEN notes
    ELSE IF EndsWith(notes[Len(notes)].text, <<SPACE>>) THEN notes
    ELSE [notes EXCEPT ![Len(notes)].text = @ \o <<SPACE>>]

----------------------------------------------------------------------------
(* Track building: _extract_tracks, _parse_sentences_v1,                   *)
(* _parse_sentences_v2_v4, _parse_sentence_to_line                         *)

\* sentence.get("Singer", current_singer)
EffectiveSinger(attr, carried) ==
    IF attr = None THEN carried ELSE attr[1]

\* A SENTENCE element is entered: the Singer attribute is read and
\* _parse_sentence_to_line starts with an empty Line.
BeginSentence(attrs) ==
    /\ pc = "sentences"
    /\ \E attr \in attrs :
          /\ singer_attr' = attr
          /\ singer' = EffectiveSinger(attr, current_singer)
          /\ current_singer' = EffectiveSinger(attr, current_singer)
    /\ line' = <<>>
    /\ line_lyrics' = <<>>
    /\ note_elem' = NoElem
    /\ pc' = "notes"
    /\ UNCHANGED <<metaVars, idx, current_beat, n_notes, trackVars, medleyVars,
                   outVars, harnessVars>>

\* One iteration of the loop over the NOTE elements of the sentence.
ProcessNote(elems, max_notes) ==
    /\ pc = "notes"
    /\ n_notes < max_notes
    /\ \E e \in elems :
          /\ medley_start' = ExtractMedleyMarkers(e.markers, "MedleyNormalBegin",
                                                  current_beat, medley_start)
          /\ medley_end' = ExtractMedleyMarkers(e.markers, "MedleyNormalEnd",
                                                current_beat, medley_end)
          /\ line' = (IF RetainsNote(e)
                      THEN Append(line, MakeNote(e, current_beat))
                      ELSE line)
          /\ line_lyrics' = (IF RetainsNote(e)
                             THEN Append(line_lyrics, e.Lyric)
                             ELSE line_lyrics)
          /\ current_beat' = BeatAfter(e, current_beat)
          /\ note_elem' = [Duration |-> e.Duration, MidiNote |-> e.MidiNote,
                           start |-> current_beat, retained |-> RetainsNote(e),
                           seen |-> TRUE]
    /\ n_notes' = n_notes + 1
    /\ UNCHANGED <<pc, metaVars, idx, current_singer, singer, singer_attr,
                   trackVars, outVars, harnessVars>>

\* The heuristics the sentence loops run on a non-empty Line.
SentenceHeuristics(notes) ==
    SetTexts(notes, SplitLyricsToTildes(AddSpaceToLastTilde(Texts(notes))))

\* V2/V4 routed by the singer like V1.
RoutesTo1_BySinger(v, duet, who, i) == ~duet \/ who # "Solo 2"

\* Whether the Line of the sentence is appended to track_1.
RoutesTo1(v, duet, who, i) ==
    IF v = 1 THEN (~duet \/ who # "Solo 2") ELSE i = 0

\* "Group" routed like any other singer.
RoutesTo2_NoGroup(v, duet, who, i) ==
    IF v = 1 THEN (duet /\ who = "Solo 2") ELSE i # 0

\* Whether the Line of the sentence is appended to track_2.
RoutesTo2(v, duet, who, i) ==
    IF v = 1 THEN (duet /\ who \in {"Solo 2", "Group"}) ELSE i # 0

\* The NOTE loop ends: the Line is closed and returned with the cursor; a
\* Line without notes is skipped, any other gets the heuristics and is
\* appended to the track(s) of its singer (V1) or of its TRACK (V2/V4).
EndSentence ==
    /\ pc = "notes"
    /\ IF line = <<>>
       THEN UNCHANGED trackVars
       ELSE LET ref == Len(lines) + 1
            IN  /\ lines' = Append(lines,
                       [notes |-> SentenceHeuristics(CloseLine(line)),
                        line_break |-> Some(current_beat)])
                /\ lyrics' = Append(lyrics, line_lyrics)
                /\ ends' = Append(ends, current_beat)
                /\ track_1' = (IF RoutesTo1(version, is_duet, singer, idx)
                               THEN Append(track_1, ref) ELSE track_1)
                /\ track_2' = (IF RoutesTo2(version, is_duet, singer, idx)
                               THEN Append(track_2, ref) ELSE track_2)
    /\ line' = <<>>
    /\ line_lyrics' = <<>>
    /\ note_elem' = NoElem
    /\ singer_attr' = None
    /\ pc' = "sentences"
    /\ UNCHANGED <<metaVars, loopVars, medleyVars, outVars, harnessVars>>

\* V2/V4: the next TRACK element is entered; its beat cursor starts at 0.
BeginTrack ==
    /\ pc = "tracks"
    /\ idx + 1 < n_tracks
    /\ idx' = idx + 1
    /\ current_beat' = 0
    /\ pc' = "sentences"
    /\ UNCHANGED <<metaVars, current_singer, singer, n_notes, lineVars,
                   trackVars, medleyVars, outVars, harnessVars>>

\* V2/V4: the SENTENCE loop of the current TRACK element ends.
EndTrack ==
    /\ pc = "sentences"
    /\ version # 1
    /\ pc' = "tracks"
    /\ UNCHANGED <<metaVars, loopVars, lineVars, trackVars, medleyVars,
                   outVars, harnessVars>>

\* Index (into the track) of the last Line that has notes, 0 if none.
LastWithNotes(heap, track) ==
    LET S == { k \in 1..Len(track) : heap[track[k]].notes # <<>> }
    IN  IF S = {} THEN 0 ELSE CHOOSE k \in S : \A m \in S : m <= k

\* _remove_last_linebreak
RemoveLastLinebreak(heap, track) ==
    IF LastWithNotes(heap, track) = 0 THEN heap
    ELSE [heap EXCEPT ![track[LastWithNotes(heap, track)]].line_break = None]

\* The loop of _extract_tracks over track_1 + track_2: fix_tilde_spacing on
\* the notes of each referenced Line, a shared Line once per reference.
RECURSIVE FixAll(_, _)
FixAll(heap, refs) ==
    IF refs = <<>> THEN heap
    ELSE FixAll([heap EXCEPT ![Head(refs)].notes =
                     SetTexts(@, FixTildeSpacing(Texts(@)))],
                Tail(refs))

\* The sentence loops are over: both tracks lose their last line break,
\* _extract_tracks runs fix_tilde_spacing and returns the tracks.
ReturnTracks ==
    /\ \/ pc = "sentences" /\ version = 1
       \/ pc = "tracks" /\ version # 1 /\ idx + 1 >= n_tracks
    /\ lines' = FixAll(RemoveLastLinebreak(RemoveLastLinebreak(lines, track_1),
                                           track_2),
                       track_1 \o track_2)
    /\ pc' = "returned"
    /\ UNCHANGED <<metaVars, loopVars, lineVars, lyrics, ends, track_1,
                   track_2, medleyVars, outVars, harnessVars>>

\* The state in which no conversion has produced anything yet.
Blank ==
    /\ idx = -1
    /\ current_singer = "Solo 1"
    /\ singer = "Solo 1"
    /\ current_beat = 0
    /\ line = <<>>
    /\ line_lyrics = <<>>
    /\ lines = <<>>
    /\ lyrics = <<>>
    /\ ends = <<>>
    /\ track_1 = <<>>
    /\ track_2 = <<>>
    /\ medley_start = None
    /\ medley_end = None
    /\ note_elem = NoElem
    /\ singer_attr = None
    /\ n_notes = 0
    /\ result = "running"
    /\ headers = None
    /\ before = <<>>
    /\ passes = <<>>

\* XmlConverter.__init__, the fields of the document
Constructed ==
    /\ raw_bytes = None
    /\ parse_log = <<>>
    /\ root = None
    /\ version = 1
    /\ is_duet = FALSE
    /\ bpm = None
    /\ p1_name = None
    /\ p2_name = None
    /\ n_tracks = 0

\* State at the call of _extract_tracks, after metadata extraction: a
\* version, and a duet flag that is set only if a TRACK named an artist.
AtExtractTracks(versions, duets) ==
    /\ Blank
    /\ texts = <<>>
    /\ raw_bytes = Some(TRUE)
    /\ parse_log = <<[encoding |-> "utf-8", parsed |-> TRUE]>>
    /\ version \in versions
    /\ is_duet \in duets
    /\ n_tracks \in 0..MaxTracks
    /\ is_duet => n_tracks >= 1
    /\ root = Some([children |-> TRUE, Version |-> Some(IntAttr(version)),
                    Duet |-> (IF is_duet THEN Some("Yes") ELSE None),
                    Tempo |-> Some(IntAttr(120)), Resolution |-> None,
                    Artists |-> [k \in 1..n_tracks |->
                                    Some(IF k = 1 THEN "Ann" ELSE "Bob")]])
    /\ bpm = Some(240)
    /\ p1_name = (IF is_duet THEN Some("Ann") ELSE None)
    /\ p2_name = (IF is_duet /\ n_tracks >= 2 THEN Some("Bob") ELSE None)
    /\ pc = (IF version = 1 THEN "sentences" ELSE "tracks")

----------------------------------------------------------------------------
(* The conversion: read and parse, metadata, tracks, document *)

\* The sequences over S of length at most n.
SeqsUpTo(S, n) == UNION { [1..m -> S] : m \in 0..n }

UTF_8 == "utf-8"
ISO_8859_1 == "iso-8859-1"

\* What read_bytes can do: raise IOError, return nothing, return bytes.
ReadOutcomes == {"IOError", "empty", "data"}

\* Version attribute values: absent, "2", "4", "3" and a non-number.
VersionAttrs ==
    {None, Some(IntAttr(2)), Some(IntAttr(4)), Some(IntAttr(3)), Some(BadAttr)}

\* Duet attribute values: absent and "Yes".
DuetAttrs == {None, Some("Yes")}

\* Tempo attribute values: absent or empty, "0", "120" and a non-number.
TempoAttrs == {None, Some(IntAttr(0)), Some(IntAttr(120)), Some(BadAttr)}

\* Resolution attribute values: absent and "Semiquaver".
ResolutionAttrs == {None, Some("Semiquaver")}

\* Artist attribute values of a TRACK: absent or empty, and two names.
ArtistAttrs == {None, Some("Ann"), Some("Bob")}

\* The parsed documents: the attributes of the root element, whether it has
\* child elements, and the Artist attributes of its TRACK elements in
\* document order (a root without children has no TRACK elements).
Documents ==
    { d \in [children : BOOLEAN, Version : VersionAttrs, Duet : DuetAttrs,
             Tempo : TempoAttrs, Resolution : ResolutionAttrs,
             Artists : SeqsUpTo(ArtistAttrs, MaxTracks)] :
        ~d.children => d.Artists = <<>> }

\* One call of _parse_xml: its encoding and whether it returned True.
ParseXml(encoding, parses) ==
    [encoding |-> encoding, parsed |-> encoding \in parses]

\* A retry under ISO-8859-1 after every first call.
ParseAttempts_AlwaysRetry(encoding, parses) ==
    <<ParseXml(encoding, parses), ParseXml(ISO_8859_1, parses)>>

\* The calls of _parse_xml that _read_and_parse_xml makes, in order: one
\* under the detected encoding and, if that fails and the encoding is not
\* ISO-8859-1, one under ISO-8859-1.
ParseAttempts(encoding, parses) ==
    IF ParseXml(encoding, parses).parsed \/ encoding = ISO_8859_1
    THEN <<ParseXml(encoding, parses)>>
    ELSE <<ParseXml(encoding, parses), ParseXml(ISO_8859_1, parses)>>

\* _read_and_parse_xml. parses is the set of encodings under which
\* _parse_xml succeeds on the bytes; tree is what the lenient parser returns.
ReadAndParse(docs) ==
    /\ pc = "start"
    /\ \E bytes \in ReadOutcomes, encoding \in {UTF_8, ISO_8859_1},
          parses \in SUBSET {UTF_8, ISO_8859_1},
          tree \in {None} \cup {Some(d) : d \in docs} :
        LET attempts == ParseAttempts(encoding, parses)
            parsed == attempts[Len(attempts)].parsed
        IN  /\ raw_bytes' = (IF bytes = "IOError" THEN None
                             ELSE Some(bytes = "data"))
            /\ IF bytes # "data"
               THEN /\ parse_log' = <<>>
                    /\ root' = None
                    /\ n_tracks' = 0
                    /\ result' = "None"
                    /\ pc' = "done"
               ELSE /\ parse_log' = attempts
                    /\ IF parsed
                       THEN /\ root' = tree
                            /\ n_tracks' = (IF tree = None THEN 0
                                            ELSE Len(tree[1].Artists))
                            /\ pc' = "metadata"
                            /\ UNCHANGED result
                       ELSE /\ root' \in {None, tree}
                            /\ n_tracks' = 0
                            /\ result' = "None"
                            /\ pc' = "done"
    /\ UNCHANGED <<version, is_duet, bpm, p1_name, p2_name, loopVars, lineVars,
                   trackVars, medleyVars, headers, harnessVars>>

\* _parse_bool_attribute
ParseBoolAttribute(value) == value = Some("Yes")

\* int(self.root.get("Version", "1"))
VersionOf(doc) == IF doc.Version = None THEN IntAttr(1) ELSE doc.Version[1]

\* XMLVersion(...) accepts 1, 2 and 4 and raises ValueError otherwise.
ValidVersion(doc) == VersionOf(doc).int /\ VersionOf(doc).v \in {1, 2, 4}

\* Resolution.from_string(...).value, DEMISEMIQUAVER when absent
ResolutionValue(attr) == IF attr = Some("Semiquaver") THEN 1 ELSE 2

\* parse_bpm: whether float(Tempo) raises ValueError, and otherwise the bpm
\* attribute afterwards (None: it is still unset).
ParseBpm(doc) ==
    IF ~doc.children THEN [raised |-> FALSE, bpm |-> None]
    ELSE IF doc.Tempo # None /\ ~doc.Tempo[1].int
    THEN [raised |-> TRUE, bpm |-> None]
    ELSE IF doc.Tempo = None \/ doc.Tempo[1].v = 0
    THEN [raised |-> FALSE, bpm |-> None]
    ELSE [raised |-> FALSE,
          bpm |-> Some(doc.Tempo[1].v * ResolutionValue(doc.Resolution))]

\* The Artist attributes that are present and not empty, in document order.
Singers(artists) == SelectSeq(artists, LAMBDA a : a # None)

\* parse_duet_singer_names without the reset of the duet flag.
ParseDuetSingerNames_KeepFlag(doc, duet, p1, p2) ==
    IF ~duet \/ ~doc.children THEN [is_duet |-> duet, p1 |-> p1, p2 |-> p2]
    ELSE LET singers == Singers(doc.Artists)
         IN  [is_duet |-> duet,
              p1 |-> IF Len(singers) >= 1 THEN singers[1] ELSE p1,
              p2 |-> IF Len(singers) >= 2 THEN singers[2] ELSE p2]

\* parse_duet_singer_names: the duet flag and the player names afterwards.
ParseDuetSingerNames(doc, duet, p1, p2) ==
    IF ~duet \/ ~doc.children THEN [is_duet |-> duet, p1 |-> p1, p2 |-> p2]
    ELSE LET singers == Singers(doc.Artists)
         IN  [is_duet |-> Len(singers) # 0,
              p1 |-> IF Len(singers) >= 1 THEN singers[1] ELSE p1,
              p2 |-> IF Len(singers) >= 2 THEN singers[2] ELSE p2]

\* _extract_metadata. It raises ValueError on a Version that is no
\* XMLVersion and on a Tempo that is no number, and AttributeError in its
\* last statement, which formats self.bpm, when parse_bpm left bpm unset.
ExtractMetadata ==
    /\ pc = "metadata"
    /\ IF root = None
       THEN /\ pc' = "extract"
            /\ UNCHANGED <<version, is_duet, bpm, p1_name, p2_name, result>>
       ELSE LET doc == root[1]
                duet == ParseBoolAttribute(doc.Duet)
                tempo == ParseBpm(doc)
                names == ParseDuetSingerNames(doc, duet, p1_name, p2_name)
            IN  IF ~ValidVersion(doc)
                THEN /\ result' = "ValueError"
                     /\ pc' = "done"
                     /\ UNCHANGED <<version, is_duet, bpm, p1_name, p2_name>>
                ELSE /\ version' = VersionOf(doc).v
                     /\ IF tempo.raised
                        THEN /\ is_duet' = duet
                             /\ result' = "ValueError"
                             /\ pc' = "done"
                             /\ UNCHANGED <<bpm, p1_name, p2_name>>
                        ELSE /\ bpm' = tempo.bpm
                             /\ is_duet' = names.is_duet
                             /\ p1_name' = names.p1
                             /\ p2_name' = names.p2
                             /\ IF tempo.bpm = None
                                THEN /\ result' = "AttributeError"
                                     /\ pc' = "done"
                                ELSE /\ pc' = "extract"
                                     /\ UNCHANGED result
    /\ UNCHANGED <<raw_bytes, parse_log, root, n_tracks, loopVars, lineVars,
                   trackVars, medleyVars, headers, harnessVars>>

\* _extract_tracks up to the sentence loops: without a root it returns two
\* empty tracks, otherwise the version selects the loop.
ExtractTracks ==
    /\ pc = "extract"
    /\ pc' = (IF root = None THEN "returned"
              ELSE IF version = 1 THEN "sentences" ELSE "tracks")
    /\ UNCHANGED <<metaVars, loopVars, lineVars, trackVars, medleyVars,
                   outVars, harnessVars>>

\* Truth value of an int | None attribute: None and 0 are false.
Truthy(opt) == opt # None /\ opt[1] # 0

\* The headers built by convert_to_songtxt that depend on the markers and
\* on the names, and the tags of its video header.
BuildHeaders ==
    [ bpm |-> bpm,
      medleystartbeat |->
          IF Truthy(medley_start) /\ Truthy(medley_end) THEN medley_start ELSE None,
      medleyendbeat |->
          IF Truthy(medley_end) /\ Truthy(medley_start) THEN medley_end ELSE None,
      p1 |-> IF is_duet /\ p1_name # None THEN p1_name ELSE None,
      p2 |-> IF is_duet /\ p2_name # None THEN p2_name ELSE None,
      medley_tag |-> Truthy(medley_start) /\ Truthy(medley_end),
      player_tags |-> p1_name # None /\ p2_name # None ]

\* The index of the line convert_to_songtxt prints after _extract_tracks.
PrintedLine == 4

\* convert_to_songtxt after _extract_tracks: the print of the last note of
\* track_1[4] raises IndexError on a shorter track; otherwise the headers
\* are built and the document is returned.
BuildDocument ==
    /\ pc = "returned"
    /\ IF Len(track_1) <= PrintedLine
       THEN /\ result' = "IndexError"
            /\ UNCHANGED headers
       ELSE /\ result' = "document"
            /\ headers' = Some(BuildHeaders)
    /\ pc' = "done"
    /\ UNCHANGED <<metaVars, loopVars, lineVars, trackVars, medleyVars,
                   harnessVars>>

\* NOTE elements of the conversions: retained notes of one beat, without a
\* marker or with one medley marker.
ConvertNoteElems ==
    Elems({IntAttr(60)}, {IntAttr(1)}, {<<"l", "a">>}, {NoFlags}, MarkerLists)

InitConvert ==
    /\ Blank
    /\ Constructed
    /\ texts = <<>>
    /\ pc = "start"

\* Specification of reading, parsing and metadata extraction: every
\* document, up to the entry of the sentence loops.
NextMetadata ==
    \/ ReadAndParse(Documents)
    \/ ExtractMetadata
    \/ ExtractTracks

SpecMetadata == InitConvert /\ [][NextMetadata]_vars

\* The documents of the whole conversions: V1, V2 and an unknown version,
\* solo and duet, with and without a tempo, up to two named tracks.
ConvertDocuments ==
    { d \in Documents :
        /\ d.Version \in {None, Some(IntAttr(2)), Some(IntAttr(3))}
        /\ d.Tempo \in {None, Some(IntAttr(120))}
        /\ d.Resolution = None
        /\ d.Artists \in {<<>>, <<Some("Ann")>>, <<Some("Ann"), Some("Bob")>>} }

\* Specification of the whole conversion, from the file to the document.
NextConvert ==
    \/ ReadAndParse(ConvertDocuments)
    \/ ExtractMetadata
    \/ ExtractTracks
    \/ BeginSentence({None})
    \/ ProcessNote(ConvertNoteElems, MaxConvertNotes)
    \/ EndSentence
    \/ BeginTrack
    \/ EndTrack
    \/ ReturnTracks
    \/ BuildDocument

SpecConvert == InitConvert /\ [][NextConvert]_vars

----------------------------------------------------------------------------
(* Specification of the NOTE loop: one solo V1 document, every combination *)
(* of pitch, duration, lyric and flags                                      *)

InitNotes ==
    /\ AtExtractTracks({1}, {FALSE})
    /\ n_tracks = 0

NextNotes ==
    \/ BeginSentence({None})
    \/ ProcessNote(NoteElems, MaxNotes)
    \/ EndSentence
    \/ ReturnTracks

SpecNotes == InitNotes /\ [][NextNotes]_vars

----------------------------------------------------------------------------
(* Specification of track building: every version, solo and duet, every    *)
(* Singer attribute; NOTE elements that are retained, rests, zero-length,   *)
(* negative, malformed or without lyric                                     *)

TrackNoteElems ==
    Elems(MidiNotes, Durations, {<<>>, <<"l", "a">>}, {NoFlags}, {<<>>})

Init == AtExtractTracks({1, 2, 4}, BOOLEAN)

Next ==
    \/ BeginSentence(SingerAttrs)
    \/ ProcessNote(TrackNoteElems, MaxNotes)
    \/ EndSentence
    \/ BeginTrack
    \/ EndTrack
    \/ ReturnTracks

Spec == Init /\ [][Next]_vars

----------------------------------------------------------------------------
(* Specification of the lyric pipeline: solo and duet V1 documents whose    *)
(* notes are all retained and differ in their Lyric and FreeStyle           *)
(* attributes; "Group" sentences put one Line into both tracks              *)

\* Lyric attribute values: absent, the held-note marker, a syllable, a
\* word ending in a space, a hyphenated word, a follow-up syllable.
RichLyrics ==
    { <<>>, <<"-">>, <<"l", "o">>, <<"l", "a", " ">>,
      <<"l", "o", "v", "e", "-">>, <<"l", "a", " ", "-">> }

LyricNoteElems ==
    Elems({IntAttr(60)}, {IntAttr(1)}, RichLyrics,
          {NoFlags, [FreeStyle |-> TRUE, Rap |-> FALSE, Bonus |-> FALSE]}, {<<>>})

InitLyric ==
    /\ AtExtractTracks({1}, BOOLEAN)
    /\ n_tracks <= 1

NextLyric ==
    \/ BeginSentence({None, Some("Group")})
    \/ ProcessNote(LyricNoteElems, MaxLyricNotes)
    \/ EndSentence
    \/ ReturnTracks

SpecLyric == InitLyric /\ [][NextLyric]_vars

----------------------------------------------------------------------------
(* Specification of the heuristics as functions: any sequence of note      *)
(* texts, then fix_tilde_spacing (up to twice) or _split_lyrics_to_tildes   *)

\* Note texts: empty, held notes with and without spaces around the tilde,
\* syllables with and without a vowel or a trailing space, a remainder.
TextPool ==
    { <<>>, <<"~">>, <<"~", " ">>, <<" ", "~">>, <<"l">>, <<"l", "o">>,
      <<"l", "a", " ">>, <<"l", "o", "v", "e">>, <<"~", "v", "e", " ">> }

InitText ==
    /\ Blank
    /\ Constructed
    /\ pc = "harness"
    /\ texts \in SeqsUpTo(TextPool, MaxTexts)

\* fix_tilde_spacing(notes), a first or a second time
ApplyFixTildeSpacing ==
    /\ pc = "harness"
    /\ passes \in {<<>>, <<"fix_tilde_spacing">>}
    /\ before' = Append(before, texts)
    /\ texts' = FixTildeSpacing(texts)
    /\ passes' = Append(passes, "fix_tilde_spacing")
    /\ UNCHANGED <<pc, metaVars, loopVars, lineVars, trackVars, medleyVars,
                   outVars>>

\* _split_lyrics_to_tildes(notes)
ApplySplitLyricsToTildes ==
    /\ pc = "harness"
    /\ passes = <<>>
    /\ before' = Append(before, texts)
    /\ texts' = SplitLyricsToTildes(texts)
    /\ passes' = Append(passes, "_split_lyrics_to_tildes")
    /\ UNCHANGED <<pc, metaVars, loopVars, lineVars, trackVars, medleyVars,
                   outVars>>

NextText ==
    \/ ApplyFixTildeSpacing
    \/ ApplySplitLyricsToTildes

SpecText == InitText /\ [][NextText]_vars

----------------------------------------------------------------------------
(* Claims about the NOTE loop (SpecNotes) *)

\* C1: a NOTE element whose Duration attribute is an integer d > 0 advances
\* the beat cursor by exactly d, whatever its pitch (positive, non-positive
\* or unparsable), lyric and flags, and whether or not a Note is retained.
C1_PositiveDurationAdvances ==
    (note_elem.seen /\ note_elem.Duration.int /\ note_elem.Duration.v > 0)
        => current_beat = note_elem.start + note_elem.Duration.v

\* A dropped element with an unparsable pitch and Duration 2, read at a
\* cursor that had already moved, has advanced the cursor by 2.
C1_Witness ==
    /\ note_elem.seen
    /\ note_elem.Duration = IntAttr(2)
    /\ ~note_elem.MidiNote.int
    /\ ~note_elem.retained
    /\ note_elem.start > 0
    /\ current_beat = note_elem.start + 2

\* C2: a NOTE element whose Duration is an integer <= 0 retains no Note and
\* leaves the beat cursor unchanged, whatever its other attributes.
C2_NonPositiveDurationIgnored ==
    (note_elem.seen /\ note_elem.Duration.int /\ note_elem.Duration.v <= 0)
        => (~note_elem.retained /\ current_beat = note_elem.start)

NonDecreasingStarts(notes) ==
    /\ \A k \in 1..Len(notes) : notes[k].start >= 0
    /\ \A k \in 1..(Len(notes) - 1) : notes[k].start <= notes[k + 1].start

\* C3: while the notes of a sentence are processed the beat cursor never
\* decreases and never becomes negative, so the start beats of the retained
\* notes of a Line are non-negative and non-decreasing.
C3_CursorMonotone ==
    /\ current_beat >= 0
    /\ note_elem.seen => current_beat >= note_elem.start
    /\ NonDecreasingStarts(line)
    /\ \A r \in 1..Len(lines) : NonDecreasingStarts(lines[r].notes)

----------------------------------------------------------------------------
(* Claims about the tracks (Spec) *)

TrackLines(track) == { lines[track[k]] : k \in 1..Len(track) }

\* C4: every Note of either output track has duration > 0 and pitch > 0,
\* and no Line of an output track has an empty note list.
C4_RetainedNotesPositive ==
    \A l \in TrackLines(track_1) \cup TrackLines(track_2) :
        /\ l.notes # <<>>
        /\ \A k \in 1..Len(l.notes) :
              l.notes[k].duration > 0 /\ l.notes[k].pitch > 0

\* Both tracks were returned with lines, after at least one NOTE element
\* was dropped.
C4_Witness ==
    /\ pc = "returned"
    /\ track_1 # <<>>
    /\ track_2 # <<>>
    /\ \E r \in 1..Len(lines) : Len(lines[r].notes) < n_notes

----------------------------------------------------------------------------
(* Claims about the lyric pipeline (SpecLyric) *)

\* References of the Lines of the returned tracks.
Returned ==
    IF pc = "returned"
    THEN { track_1[k] : k \in 1..Len(track_1) } \cup { track_2[k] : k \in 1..Len(track_2) }
    ELSE {}

LastText(r) == lines[r].notes[Len(lines[r].notes)].text

\* C5: in every Line returned by _extract_tracks the final
\* note's text ends with exactly one trailing space.
C5_ExactlyOneTrailingSpace ==
    \A r \in Returned :
        /\ EndsWith(LastText(r), <<SPACE>>)
        /\ ~EndsWith(LastText(r), <<SPACE, SPACE>>)

\* The returned Lines built from the Lyric attributes "love-" and "-".
LoveLines == { r \in Returned : lyrics[r] = << <<"l", "o", "v", "e", "-">>, <<"-">> >> }

\* C7 as claimed: lyric "love-" followed by a held note "-" gives the texts
\* "lo" and "~ve ".
C7_LoveSplit ==
    \A r \in LoveLines :
        Texts(lines[r].notes) = << <<"l", "o">>, <<"~", "v", "e", " ">> >>

\* C7 as amended: lyric "love-" followed by a held note "-" gives the texts
\* "lo" and "~ve- ": the preserved hyphen moves to the held note with the
\* rest of the word.
C7_LoveSplitKeepsHyphen ==
    \A r \in LoveLines :
        Texts(lines[r].notes) = << <<"l", "o">>, <<"~", "v", "e", "-", " ">> >>

C7_Witness == LoveLines # {}

----------------------------------------------------------------------------
(* Claims about the heuristics as functions (SpecText) *)

\* C6: fix_tilde_spacing is idempotent: applied twice it gives the note
\* texts it gives applied once.
C6_FixTildeSpacingIdempotent ==
    passes = <<"fix_tilde_spacing", "fix_tilde_spacing">> => texts = before[2]

\* Two passes ran on a sequence the first pass changed, with a run of two
\* held notes in it.
C6_Witness ==
    /\ passes = <<"fix_tilde_spacing", "fix_tilde_spacing">>
    /\ before[1] # before[2]
    /\ \E k \in 1..(Len(texts) - 1) : texts[k] = TILDE /\ texts[k + 1] = TILDE_SPACE

\* A text note directly followed by a held note.
PrecedesRun(ts, i) ==
    /\ i < Len(ts)
    /\ Strip(ts[i]) # <<>>
    /\ Strip(ts[i]) # TILDE
    /\ Strip(ts[i + 1]) = TILDE

\* The indices of the run of held notes that follows note i.
RunAfter(ts, i) ==
    { m \in (i + 1)..Len(ts) : \A q \in (i + 1)..m : Strip(ts[q]) = TILDE }

RECURSIVE Chars(_, _)
Chars(ts, S) ==
    IF S = {} THEN 0
    ELSE LET m == CHOOSE x \in S : TRUE
         IN  Len(ts[m]) + Chars(ts, S \ {m})

\* C8 as claimed: _split_lyrics_to_tildes never makes the texts of the run
\* that follows a text note longer, together, than the text note was, plus
\* one (stated for the runs it makes longer, the only ones it changes).
C8_RunWithinTextPlusOne ==
    passes = <<"_split_lyrics_to_tildes">> =>
        \A i \in 1..Len(texts) :
            (/\ PrecedesRun(before[1], i)
             /\ Chars(texts, RunAfter(before[1], i))
                    > Chars(before[1], RunAfter(before[1], i)))
            => Chars(texts, RunAfter(before[1], i)) <= Len(before[1][i]) + 1

\* C8 as amended: after _split_lyrics_to_tildes the texts of the run of k
\* held notes that follows a text note have together at most as many
\* characters as the text note had, plus k, or the run is unchanged.
C8_RunWithinTextPlusRun ==
    passes = <<"_split_lyrics_to_tildes">> =>
        \A i \in 1..Len(texts) :
            PrecedesRun(before[1], i) =>
                \/ Chars(texts, RunAfter(before[1], i))
                       <= Len(before[1][i]) + Cardinality(RunAfter(before[1], i))
                \/ \A m \in RunAfter(before[1], i) : texts[m] = before[1][m]

\* A syllable was split over a run of three held notes, and the run now
\* has more characters than the syllable had plus one.
C8_Witness ==
    /\ passes = <<"_split_lyrics_to_tildes">>
    /\ \E i \in 1..Len(texts) :
          /\ PrecedesRun(before[1], i)
          /\ Cardinality(RunAfter(before[1], i)) = 3
          /\ texts[i] # before[1][i]
          /\ Chars(texts, RunAfter(before[1], i)) > Len(before[1][i]) + 1

----------------------------------------------------------------------------
(* Claims about the returned document (SpecConvert) *)

\* C9: the headers of a returned document carry medley-start and medley-end
\* together or not at all, and they carry them (with the last observed beat
\* of each marker type, and the medley tag built) exactly when a
\* MedleyNormalBegin and a MedleyNormalEnd marker were both observed, at
\* whatever beat, beat 0 included.
C9_MedleyHeadersWhenBothObserved ==
    result = "document" =>
        LET h == headers[1]
            observed == medley_start # None /\ medley_end # None
        IN  /\ (h.medleystartbeat # None) <=> (h.medleyendbeat # None)
            /\ (h.medleystartbeat # None) <=> observed
            /\ h.medley_tag <=> observed
            /\ observed => /\ h.medleystartbeat = medley_start
                           /\ h.medleyendbeat = medley_end

----------------------------------------------------------------------------
(* Claims about metadata extraction (SpecMetadata) *)

\* _extract_metadata has returned and _extract_tracks has not started.
MetadataExtracted == pc = "extract" /\ root # None

\* C10: after metadata extraction of a document whose Duet attribute is
\* "Yes": without a named track the duet flag is false and no player name
\* is set; with exactly one the flag is true and only player 1 is set; with
\* two or more, player 1 and player 2 are the first two names in document
\* order. In every state, player 2 is set only if player 1 is, and a player
\* name is set only if the duet flag is true, in the fields and in the
\* headers built from them.
C10_DuetNames ==
    /\ (MetadataExtracted /\ root[1].Duet = Some("Yes")) =>
          LET singers == Singers(root[1].Artists)
          IN  /\ Len(singers) = 0 =>
                    ~is_duet /\ p1_name = None /\ p2_name = None
              /\ Len(singers) = 1 =>
                    is_duet /\ p1_name = singers[1] /\ p2_name = None
              /\ Len(singers) >= 2 =>
                    is_duet /\ p1_name = singers[1] /\ p2_name = singers[2]
    /\ p2_name # None => p1_name # None
    /\ p1_name # None => is_duet
    /\ BuildHeaders.p2 # None => BuildHeaders.p1 # None
    /\ BuildHeaders.p1 # None => is_duet

\* A duet document whose first TRACK has no Artist and whose second has one.
C10_Witness ==
    /\ MetadataExtracted
    /\ root[1].Duet = Some("Yes")
    /\ root[1].Artists = <<None, Some("Bob")>>
    /\ is_duet
    /\ p1_name = Some("Bob")
    /\ p2_name = None

----------------------------------------------------------------------------
(* Claims about the outcome of the conversion *)

\* The parser returned a tree for bytes that are not empty.
Parsed == raw_bytes = Some(TRUE) /\ pc \notin {"start"} /\ result # "None"

\* C11: convert_to_songtxt ends in one of two ways, a returned document or
\* a returned None, and it returns a document for every input that is not
\* empty, decodes and parses: neither the number of lines of track 1 nor
\* the note or root attributes make it end otherwise.
C11_DocumentOrNone ==
    pc = "done" =>
        /\ result \in {"document", "None"}
        /\ Parsed => result = "document"

----------------------------------------------------------------------------
(* Claims about the tempo (SpecMetadata) *)

\* C12: when the root element has no usable Tempo attribute (absent, or
\* zero), _extract_metadata leaves the bpm unset and returns normally, and
\* the conversion goes on to _extract_tracks.
C12_MissingTempoProceeds ==
    (/\ Parsed
     /\ pc # "metadata"
     /\ root # None
     /\ ValidVersion(root[1])
     /\ root[1].Tempo \in {None, Some(IntAttr(0))})
        => /\ result = "running"
           /\ pc = "extract"
           /\ bpm = None

----------------------------------------------------------------------------
(* Claims about the held notes of the returned Lines (SpecLyric) *)

\* The Lyric attribute of a held note.
HELD == <<"-">>

\* Note k of the returned Line r is a held note of a run that follows a
\* syllable: the nearest earlier note that is not held has a text.
InRunAfterSyllable(r, k) ==
    /\ lyrics[r][k] = HELD
    /\ \E p \in 1..(k - 1) :
          /\ \A m \in (p + 1)..k : lyrics[r][m] = HELD
          /\ lyrics[r][p] # HELD
          /\ Strip(FixLyricString(lyrics[r][p])) # <<>>

\* C13: in every Line returned by _extract_tracks, in every run of held
\* notes that follows a syllable, also when the last note of the run got
\* the remainder of the syllable, the last note of the run ends with a
\* space and every earlier note of the run is exactly "~".
C13_OnlyLastOfRunSpaced ==
    \A r \in Returned :
        \A k \in 1..Len(lines[r].notes) :
            InRunAfterSyllable(r, k) =>
                IF k < Len(lines[r].notes) /\ lyrics[r][k + 1] = HELD
                THEN lines[r].notes[k].text = TILDE
                ELSE EndsWith(lines[r].notes[k].text, <<SPACE>>)

----------------------------------------------------------------------------
(* Claims about the line breaks of the returned tracks (Spec) *)

\* C14: in each track returned by _extract_tracks the last Line has no
\* line break and every other Line has one whose out-time is the beat
\* cursor at the end of its sentence, also in a V1 duet whose "Group" Line
\* is the last of one track and not of the other.
C14_BreaksBetweenLines ==
    pc = "returned" =>
        \A track \in {track_1, track_2} :
            \A k \in 1..Len(track) :
                lines[track[k]].line_break =
                    (IF k = Len(track) THEN None ELSE Some(ends[track[k]]))

----------------------------------------------------------------------------
(* Claims about reading and parsing (SpecMetadata) *)

\* C15: _parse_xml is called at most twice per input; a second call is
\* made exactly when the first failed under an encoding other than
\* ISO-8859-1, and it uses ISO-8859-1; when the last call fails the
\* conversion returns None, when it succeeds the conversion goes on; an
\* input of zero bytes returns None without any call.
C15_ParseAttempts ==
    /\ Len(parse_log) <= 2
    /\ Len(parse_log) = 2 <=>
          (/\ parse_log # <<>>
           /\ ~parse_log[1].parsed
           /\ parse_log[1].encoding # ISO_8859_1)
    /\ Len(parse_log) = 2 => parse_log[2].encoding = ISO_8859_1
    /\ parse_log # <<>> =>
          (parse_log[Len(parse_log)].parsed <=> result # "None")
    /\ (parse_log # <<>> /\ ~parse_log[Len(parse_log)].parsed) =>
          (pc = "done" /\ headers = None)
    /\ raw_bytes = Some(FALSE) => (parse_log = <<>> /\ result = "None")

\* Both calls failed, the first under UTF-8, and the conversion returned
\* None.
C15_Witness ==
    /\ Len(parse_log) = 2
    /\ parse_log[1] = [encoding |-> UTF_8, parsed |-> FALSE]
    /\ parse_log[2] = [encoding |-> ISO_8859_1, parsed |-> FALSE]
    /\ result = "None"

----------------------------------------------------------------------------
(* Claims about the routing of the Lines (Spec) *)

\* A step that enters a SENTENCE element.
SentenceBegins == pc = "sentences" /\ pc' = "notes"

\* A step that leaves a SENTENCE element.
SentenceEnds == pc = "notes" /\ pc' = "sentences"

\* The step appends the new Line to the track, or leaves the track alone.
Appended(track, track_after) == track_after = Append(track, Len(lines'))

\* C16, step by step: a V1 sentence takes its own Singer attribute or else
\* the singer carried forward, and carries it forward in turn without
\* moving the beat cursor; at its end the cursor it reached is kept, a
\* sentence without retained notes leaves the tracks alone, and the Line of
\* any other goes to track 2 alone for "Solo 2" in a duet, to both tracks
\* for "Group" in a duet, and to track 1 alone otherwise.
C16_Step ==
    /\ (SentenceBegins /\ version = 1) =>
          /\ singer' = (IF singer_attr' = None THEN current_singer
                        ELSE singer_attr'[1])
          /\ current_singer' = singer'
          /\ current_beat' = current_beat
    /\ (SentenceEnds /\ version = 1) =>
          /\ current_singer' = singer
          /\ current_beat' = current_beat
          /\ IF line = <<>>
             THEN lines' = lines /\ track_1' = track_1 /\ track_2' = track_2
             ELSE /\ Len(lines') = Len(lines) + 1
                  /\ IF is_duet /\ singer = "Solo 2"
                     THEN track_1' = track_1 /\ Appended(track_2, track_2')
                     ELSE IF is_duet /\ singer = "Group"
                     THEN Appended(track_1, track_1') /\ Appended(track_2, track_2')
                     ELSE Appended(track_1, track_1') /\ track_2' = track_2

\* C16: in V1 every sentence with retained notes is routed by its effective
\* singer (its Singer attribute, else the one carried forward, "Solo 1" at
\* first): in a duet "Solo 2" to track 2, "Group" to both, anything else to
\* track 1; without the duet flag every Line to track 1, and track 2 stays
\* empty. A sentence without retained notes still carries its singer and
\* the beat cursor forward.
C16_V1Routing ==
    /\ [][C16_Step]_vars
    /\ []((version = 1 /\ ~is_duet) =>
            (track_2 = <<>> /\ track_1 = [k \in 1..Len(lines) |-> k]))

\* A V1 duet: the only Line so far starts after beat 0, behind dropped
\* elements, and went to track 2 alone; the sentence being read has no
\* Singer attribute and takes "Solo 2", carried forward.
C16_Witness ==
    /\ version = 1
    /\ is_duet
    /\ track_1 = <<>>
    /\ track_2 = <<1>>
    /\ lines[1].notes[1].start > 0
    /\ Len(lines[1].notes) = 1
    /\ ends[1] = lines[1].notes[1].start + lines[1].notes[1].duration
    /\ pc = "notes"
    /\ singer_attr = None
    /\ singer = "Solo 2"

\* C17, step by step: entering a TRACK element of a V2/V4 document sets
\* the beat cursor to 0 and entering a sentence does not move it; the Line
\* of a sentence of the first TRACK goes to track 1 alone and the Line of
\* a sentence of any later TRACK to track 2 alone.
C17_Step ==
    /\ (pc = "tracks" /\ pc' = "sentences") =>
          (idx' = idx + 1 /\ current_beat' = 0)
    /\ (SentenceBegins /\ version # 1) => current_beat' = current_beat
    /\ (SentenceEnds /\ version # 1 /\ line # <<>>) =>
          IF idx = 0
          THEN Appended(track_1, track_1') /\ track_2' = track_2
          ELSE track_1' = track_1 /\ Appended(track_2, track_2')

\* C17: in V2/V4 the Lines of the first TRACK element go to track 1 alone
\* and the Lines of every later TRACK element to track 2 alone, whatever
\* the Singer attributes and the duet flag; the beat cursor starts at 0 in
\* each TRACK element.
C17_V2Routing == [][C17_Step]_vars

\* A V2/V4 solo document: the Line of the first TRACK ended after beat 0,
\* and the Line of a "Solo 1" sentence of the second TRACK starts at beat 0
\* in track 2.
C17_Witness ==
    /\ version # 1
    /\ ~is_duet
    /\ idx = 1
    /\ pc = "sentences"
    /\ singer = "Solo 1"
    /\ track_1 = <<1>>
    /\ track_2 = <<2>>
    /\ ends[1] > 0
    /\ lines[2].notes[1].start = 0

====
